---------------------------- MODULE Spec2Model ----------------------------
(* Model of definitions/datasets/kagglebirds2020/__init__.py:                *)
(* the bird-free segment detector (read_noise_csv), the leaf datasets and    *)
(* the dataset wrappers (FixedSizeExcerpts, Floatify, MixBackgroundNoise,    *)
(* DownmixChannels, Mixup).                                                  *)
(*                                                                           *)
(* Numbers.  Times in a .csv file and random draws are exact rationals       *)
(* [num, den]; floating-point rounding is not modelled.  Arrays are values   *)
(* [dtype, den, data]: data holds integer numerators over the common         *)
(* denominator den, nested one sequence per axis.                            *)
EXTENDS Integers, Sequences, FiniteSets, TLC

VARIABLES
    segIn,      \* arguments of read_noise_csv: the table, sample_rate, length
    segOut,     \* its outcome: [status, segments], status "none" before the call
    ds,         \* the dataset object handed to the training loop (a tree)
    heap,       \* the item mappings (dicts) by identity: those of the last call
                \* and, first, the item the consumer held when it made the call
    ret,        \* the last __getitem__ call on ds and its outcome
    trace,      \* every mapping returned inside the last call, as returned
    attr,       \* the last attribute lookup on ds and its outcome
    args        \* the constructor arguments of a NoiseDataset built directly

vars == <<segIn, segOut, ds, heap, ret, trace, attr, args>>

-----------------------------------------------------------------------------
(* Bounds of the model.                                                      *)

\* tables hold up to MaxRows calls
MaxRows == 2
\* time stamps are 0, 1/4, ..., MaxTick/4 seconds
MaxTick == 6
\* wave files hold 0..MaxLen samples per channel
MaxLen == 3
\* FixedSizeExcerpts is configured with a length of 0..MaxTarget
MaxTarget == 4
\* the consumer makes up to MaxCalls calls in a row
MaxCalls == 2
\* np.random.rand() returns 0, 1/RandDen, ..., (RandDen-1)/RandDen
RandDen == 2
\* np.random.beta returns 1/BetaDen, ..., (BetaDen-1)/BetaDen
BetaDen == 4

-----------------------------------------------------------------------------
(* Small helpers.                                                            *)

Abs(x) == IF x < 0 THEN -x ELSE x

Min(a, b) == IF a <= b THEN a ELSE b

Max(a, b) == IF a >= b THEN a ELSE b

Range(s) == {s[i] : i \in DOMAIN s}

\* all sequences over S of length 0..n
SeqsUpTo(S, n) == UNION {[1..k -> S] : k \in 0..n}

RECURSIVE Gcd(_, _)
Gcd(a, b) == IF b = 0 THEN Abs(a) ELSE Gcd(b, a % b)

Lcm(a, b) == (a \div Gcd(a, b)) * b

Rat(n, d) == [num |-> n, den |-> d]

RatAdd(x, y) == Rat(x.num * y.den + y.num * x.den, x.den * y.den)

RatSub(x, y) == Rat(x.num * y.den - y.num * x.den, x.den * y.den)

RatMul(x, y) == Rat(x.num * y.num, x.den * y.den)

RatLess(x, y) == x.num * y.den < y.num * x.den

RatEq(x, y) == x.num * y.den = y.num * x.den

\* the same rational in lowest terms
RatNorm(x) == LET g == Gcd(x.num, x.den) IN Rat(x.num \div g, x.den \div g)

Zero == Rat(0, 1)

One == Rat(1, 1)

\* float -> integer conversion of numpy's astype truncates toward zero
TruncToInt(n, d) == IF n >= 0 THEN n \div d ELSE -((-n) \div d)

-----------------------------------------------------------------------------
(* read_noise_csv: the bird-free portions of a recording.                    *)
(* segIn = [schema, rows, sample_rate, length]; schema is the column layout  *)
(* of the file: "point" ('Time (s)', 'Freq (Hz)'), "interval" ('Begin Time   *)
(* (s)', 'End Time (s)') or "other".  A row of a "point" table is [t], a row *)
(* of an "interval" table is [b, e], all in seconds.                         *)

\* the constant subtracted from, then added to, a time point
CallLead == Rat(3, 2)

\* beginnings and endings in seconds, as the two branches compute them
BeginSeconds(tbl) ==
    IF tbl.schema = "point"
    THEN [i \in DOMAIN tbl.rows |-> RatSub(tbl.rows[i].t, CallLead)]
    ELSE [i \in DOMAIN tbl.rows |-> tbl.rows[i].b]

EndSeconds(tbl) ==
    IF tbl.schema = "point"
    THEN [i \in DOMAIN tbl.rows |-> RatAdd(BeginSeconds(tbl)[i], CallLead)]
    ELSE [i \in DOMAIN tbl.rows |-> tbl.rows[i].e]

\* (seconds * sample_rate).astype(np.int)
ToSamples(secs, sample_rate) ==
    [i \in DOMAIN secs |-> TruncToInt(secs[i].num * sample_rate, secs[i].den)]

Beginnings(tbl) == ToSamples(BeginSeconds(tbl), tbl.sample_rate)

Endings(tbl) == ToSamples(EndSeconds(tbl), tbl.sample_rate)

\* sorted(...) of the (time, change) tuples: Python orders tuples
\* lexicographically, so an ending sorts before a beginning at the same time
TupleLess(a, b) == a[1] < b[1] \/ (a[1] = b[1] /\ a[2] < b[2])

Changepoints(tbl) ==
    LET bs == Beginnings(tbl)
        es == Endings(tbl)
        n  == Len(tbl.rows)
        chained == [i \in 1..(2 * n) |->
                       IF i <= n THEN <<bs[i], 1>> ELSE <<es[i - n], -1>>]
    IN  SortSeq(chained, TupleLess)

\* [(0, 0)] + changepoints + [(length, 0)]
EventsWithOrigin(tbl) == <<(<<0, 0>>)>> \o Changepoints(tbl) \o <<(<<tbl.length, 0>>)>>

\* the event list without the leading (0, 0)
EventsNoOrigin(tbl) == Changepoints(tbl) \o <<(<<tbl.length, 0>>)>>

Events(tbl) == EventsWithOrigin(tbl)

RECURSIVE SumTo(_, _)
SumTo(changes, j) == IF j = 0 THEN 0 ELSE SumTo(changes, j - 1) + changes[j]

\* np.cumsum(changes[:-1]): entry j counts the changes up to and including j
NumSourcesInclusive(ev) == [j \in 1..(Len(ev) - 1) |-> SumTo([i \in DOMAIN ev |-> ev[i][2]], j)]

\* the running sum taken up to but excluding entry j
NumSourcesExclusive(ev) == [j \in 1..(Len(ev) - 1) |-> SumTo([i \in DOMAIN ev |-> ev[i][2]], j - 1)]

NumSources(ev) == NumSourcesInclusive(ev)

RECURSIVE SelectIdx(_, _)
\* np.where(num_sources == 0)[0], as an increasing sequence of indices
SelectIdx(ns, j) ==
    IF j = 0 THEN <<>>
    ELSE IF ns[j] = 0 THEN Append(SelectIdx(ns, j - 1), j)
         ELSE SelectIdx(ns, j - 1)

Inactive(ev) == SelectIdx(NumSources(ev), Len(ev) - 1)

\* list(zip(beginnings, lengths))
SegmentsOf(ev) ==
    LET inactive == Inactive(ev)
    IN  [k \in DOMAIN inactive |->
            <<ev[inactive[k]][1], ev[inactive[k] + 1][1] - ev[inactive[k]][1]>>]

read_noise_csv(tbl) ==
    IF tbl.schema \notin {"point", "interval"}
    THEN [status |-> "ValueError", segments |-> <<>>]
    ELSE [status |-> "returned", segments |-> SegmentsOf(Events(tbl))]

-----------------------------------------------------------------------------
(* numpy arrays as values.  An array is [dtype, shape, den, data]: shape is  *)
(* the tuple of axis sizes, data the elements nested one sequence per axis   *)
(* (an integer for a 0-d array), each element standing for data / den.       *)
(* Integer dtypes always have den = 1.  Every numpy operation the module     *)
(* uses (slicing, tile, concatenate, zeros, *, +, mean, dot, astype, T)      *)
(* leaves its operands as they are, so arrays need no identity here.         *)

\* the wildcard of common_shape for an axis whose size varies
None == -1

Arr(dt, sh, dn, dat) == [dtype |-> dt, shape |-> sh, den |-> dn, data |-> dat]

NDim(a) == Len(a.shape)

IsFloat(dt) == dt \in {"float32", "float64"}

\* elements of nested data, as a set
Elems(dat, nd) ==
    CASE nd = 0 -> {dat}
      [] nd = 1 -> Range(dat)
      [] OTHER  -> UNION {Range(dat[i]) : i \in DOMAIN dat}

\* apply f to every element
MapData(f(_), dat, nd) ==
    CASE nd = 0 -> f(dat)
      [] nd = 1 -> [i \in DOMAIN dat |-> f(dat[i])]
      [] OTHER  -> [i \in DOMAIN dat |-> [j \in DOMAIN dat[i] |-> f(dat[i][j])]]

\* combine two arrays of the same shape element by element
ZipData(f(_, _), x, y, nd) ==
    CASE nd = 0 -> f(x, y)
      [] nd = 1 -> [i \in DOMAIN x |-> f(x[i], y[i])]
      [] OTHER  -> [i \in DOMAIN x |-> [j \in DOMAIN x[i] |-> f(x[i][j], y[i][j])]]

RECURSIVE GcdOfSet(_)
GcdOfSet(S) ==
    IF S = {} THEN 0
    ELSE LET x == CHOOSE y \in S : TRUE IN Gcd(x, GcdOfSet(S \ {x}))

\* the same array with its fraction data / den in lowest terms
Reduced(a) ==
    LET g == Gcd(a.den, GcdOfSet(Elems(a.data, NDim(a))))
    IN  IF g <= 1 THEN a
        ELSE [a EXCEPT !.den = a.den \div g,
                       !.data = MapData(LAMBDA v : v \div g, a.data, NDim(a))]

\* nested zeros of a shape
ZeroData(sh) ==
    CASE Len(sh) = 0 -> 0
      [] Len(sh) = 1 -> [i \in 1..sh[1] |-> 0]
      [] OTHER       -> [i \in 1..sh[1] |-> [j \in 1..sh[2] |-> 0]]

\* np.zeros(shape, dtype)
Zeros(sh, dt) == Arr(dt, sh, 1, ZeroData(sh))

\* np.zeros_like(a)
ZerosLike(a) == Zeros(a.shape, a.dtype)

\* len(a): the size of the first axis
LenOf(a) == a.shape[1]

\* a bound of a Python slice over n elements: negative counts from the end,
\* and the result is clamped to 0..n
SliceBound(i, n) == IF i < 0 THEN Max(i + n, 0) ELSE Min(i, n)

\* a[lo:hi] along the first axis
SliceFirst(a, lo, hi) ==
    LET n == LenOf(a)
        l == SliceBound(lo, n)
        h == SliceBound(hi, n)
    IN  [a EXCEPT !.shape = <<Max(h - l, 0)>> \o Tail(a.shape),
                  !.data = SubSeq(a.data, l + 1, h)]

\* np.tile(a, (factor, 1, ...)): factor repetitions along the first axis
TileFirst(a, factor) ==
    LET n == LenOf(a)
    IN  [a EXCEPT !.shape = <<factor * n>> \o Tail(a.shape),
                  !.data = [i \in 1..(factor * n) |-> a.data[((i - 1) % n) + 1]]]

\* np.concatenate((a, b)) along the first axis
ConcatFirst(a, b) ==
    [a EXCEPT !.shape = <<LenOf(a) + LenOf(b)>> \o Tail(a.shape),
              !.data = a.data \o b.data]

\* the result dtype of python_float * a and of np.float64 scalar * a under
\* numpy's value-based casting: a float array keeps its dtype, an integer
\* array and every 0-d operand give float64
ScaledDtype(a) == IF NDim(a) > 0 /\ IsFloat(a.dtype) THEN a.dtype ELSE "float64"

\* w * a for a Python float w
ScalarTimes(w, a) ==
    Reduced(Arr(ScaledDtype(a), a.shape, a.den * w.den,
                MapData(LAMBDA v : v * w.num, a.data, NDim(a))))

\* the result dtype of a + b for two float operands
SumDtype(a, b) == IF a.dtype = "float32" /\ b.dtype = "float32" THEN "float32" ELSE "float64"

\* a + b for two arrays of the same shape
Plus(a, b) ==
    LET l == Lcm(a.den, b.den)
    IN  Reduced(Arr(SumDtype(a, b), a.shape, l,
                    ZipData(LAMBDA x, y : x * (l \div a.den) + y * (l \div b.den),
                            a.data, b.data, NDim(a))))

\* abs(a).max(), as a rational
MaxAbs(a) ==
    LET S == {Abs(v) : v \in Elems(a.data, NDim(a))}
    IN  Rat(CHOOSE m \in S : \A v \in S : v <= m, a.den)

\* (a > 0.0).astype(dt)
PositiveAs(a, dt) ==
    Arr(dt, a.shape, 1, MapData(LAMBDA v : IF v > 0 THEN 1 ELSE 0, a.data, NDim(a)))

\* np.asanyarray(a).T: the axes in reverse order
Transposed(a) ==
    IF NDim(a) < 2 THEN a
    ELSE [a EXCEPT !.shape = <<a.shape[2], a.shape[1]>>,
                   !.data = [j \in 1..a.shape[2] |-> [i \in 1..a.shape[1] |-> a.data[i][j]]]]

\* full scale of signed 16-bit samples
Int16FullScale == 32768

\* audio.to_float: signed 16-bit samples scaled to [-1, 1) as float32, float32
\* samples as they are
to_float(a) ==
    IF a.dtype = "float32" THEN a
    ELSE Reduced(Arr("float32", a.shape, a.den * Int16FullScale, a.data))

RECURSIVE SumSeq(_)
SumSeq(sq) == IF sq = <<>> THEN 0 ELSE Head(sq) + SumSeq(Tail(sq))

\* the sum over axis position ax of w[c] * a[.., c, ..], with the axis kept
\* at size 1; w holds integer weights
WeightedSumData(a, ax, w) ==
    CASE NDim(a) = 1 -> <<SumSeq([c \in DOMAIN a.data |-> w[c] * a.data[c]])>>
      [] NDim(a) = 2 /\ ax = 1 ->
            <<[j \in 1..a.shape[2] |-> SumSeq([c \in 1..a.shape[1] |-> w[c] * a.data[c][j]])]>>
      [] OTHER ->
            [i \in 1..a.shape[1] |-> <<SumSeq([c \in 1..a.shape[2] |-> w[c] * a.data[i][c]])>>]

\* np.mean(a, axis, keepdims=True): float64 for an integer array
MeanOver(a, ax) ==
    LET n == a.shape[ax]
    IN  Reduced(Arr(IF IsFloat(a.dtype) THEN a.dtype ELSE "float64",
                    [a.shape EXCEPT ![ax] = 1], a.den * n,
                    WeightedSumData(a, ax, [c \in 1..n |-> 1])))

\* weights.astype(dt) for weights num[c] / den: kept for a float dtype,
\* truncated to integers otherwise
WeightsAs(num, den, dt) ==
    IF IsFloat(dt) THEN [num |-> num, den |-> den]
    ELSE [num |-> [c \in DOMAIN num |-> TruncToInt(num[c], den)], den |-> 1]

\* the two weighted sums of DownmixChannels: np.dot(a, weights)[..., newaxis]
\* over the last axis, (a * weights).sum(axis, keepdims=True) otherwise, which
\* numpy accumulates in int64 for an integer array
WeightedOver(a, ax, num, den) ==
    LET w == WeightsAs(num, den, a.dtype)
    IN  Reduced(Arr(IF ax = NDim(a) \/ IsFloat(a.dtype) THEN a.dtype ELSE "int64",
                    [a.shape EXCEPT ![ax] = 1], a.den * w.den,
                    WeightedSumData(a, ax, w.num)))

-----------------------------------------------------------------------------
(* loop and crop.                                                            *)

\* the tiled array, before the partial repetition is appended
LoopTiled(array, length) ==
    LET factor == length \div LenOf(array)
    IN  IF factor > 1 THEN TileFirst(array, factor) ELSE array

\* whole repetitions followed by the first `missing` elements
LoopWithPartial(array, length) ==
    LET tiled   == LoopTiled(array, length)
        missing == length - LenOf(tiled)
    IN  IF missing # 0 THEN ConcatFirst(tiled, SliceFirst(tiled, 0, missing))
        ELSE tiled

\* whole repetitions only
LoopWholeOnly(array, length) == LoopTiled(array, length)

LoopFill(array, length) == LoopWithPartial(array, length)

loop(array, length) ==
    IF LenOf(array) < length
    THEN IF LenOf(array) = 0
         THEN Zeros(<<length>> \o Tail(array.shape), array.dtype)
         ELSE LoopFill(array, length)
    ELSE array

\* the start of the centre crop: (l - length) // 2
CenterStartFloor(l, length) == (l - length) \div 2

\* the start rounded up instead
CenterStartCeil(l, length) == (l - length + 1) \div 2

CenterStart(l, length) == CenterStartFloor(l, length)

\* the values np.random.randint(n) can return
RandInt(n) == 0..(n - 1)

\* the positions crop draws from when it is not deterministic
CropPositions(array, length) == RandInt(LenOf(array) - length + 1)

\* crop with the drawn position pos (unused when deterministic)
crop(array, length, deterministic, pos) ==
    IF LenOf(array) > length
    THEN IF ~deterministic
         THEN SliceFirst(array, pos, pos + length)
         ELSE LET l == LenOf(array)
              IN  SliceFirst(array, CenterStart(l, length), (l + length) \div 2)
    ELSE array

-----------------------------------------------------------------------------
(* Datasets.  A dataset object is a record: its kind (the class), the fields *)
(* its constructor sets (shapes, dtypes, num_classes, num_items and the      *)
(* class's own), and for a wrapper the wrapped dataset object(s) nested in   *)
(* it.  shapes and dtypes are functions from field names.                    *)

\* len(dataset): the number of items the constructor handed to Dataset
LenDataset(d) == d.num_items

common_shape(arrays) ==
    LET first == arrays[1].shape
    IN  [ax \in DOMAIN first |->
            IF \A i \in DOMAIN arrays : arrays[i].shape[ax] = first[ax]
            THEN first[ax] ELSE None]

\* annotations = None
NoAnnotations == [given |-> FALSE, cols |-> <<>>]

\* the schema entries BirdcallDataset declares for the annotation columns
LabelShape(key, num_classes) ==
    IF key \in {"label_bg", "label_all"} THEN <<num_classes>> ELSE <<>>

LabelDtype(key) ==
    IF key \in {"label_fg", "label_bg"} THEN "uint8" ELSE "float32"

LabelKeys == {"label_fg", "label_bg", "label_all", "rating"}

BirdcallDataset(itemids, wavs, labelset, annotations) ==
    LET num_classes == Len(labelset)
        present == IF annotations.given THEN LabelKeys \cap DOMAIN annotations.cols ELSE {}
    IN  [kind        |-> "BirdcallDataset",
         shapes      |-> [k \in {"input", "itemid"} \cup present |->
                             CASE k = "input"  -> common_shape(wavs)
                               [] k = "itemid" -> <<>>
                               [] OTHER        -> LabelShape(k, num_classes)],
         dtypes      |-> [k \in {"input", "itemid"} \cup present |->
                             CASE k = "input"  -> wavs[1].dtype
                               [] k = "itemid" -> "str"
                               [] OTHER        -> LabelDtype(k)],
         num_classes |-> num_classes,
         num_items   |-> Len(itemids),
         itemids     |-> itemids,
         wavs        |-> wavs,
         labelset    |-> labelset,
         annotations |-> annotations]

RECURSIVE FlattenSegments(_, _, _, _)
\* the (wav, start, length) triples of the wave files from number w on, in
\* order, keeping the segments with length >= min_length
FlattenSegments(wavs, segments_per_wav, min_length, w) ==
    IF w > Min(Len(wavs), Len(segments_per_wav)) THEN <<>>
    ELSE LET segs == segments_per_wav[w]
             kept == SelectSeq([k \in DOMAIN segs |->
                                   [wav |-> wavs[w], start |-> segs[k][1], length |-> segs[k][2]]],
                               LAMBDA t : t.length >= min_length)
         IN  kept \o FlattenSegments(wavs, segments_per_wav, min_length, w + 1)

\* segments_per_wav = None
NoSegments == [given |-> FALSE, list |-> <<>>]

NoiseDataset(wavs, segments_per_wav, min_length) ==
    LET segments ==
            IF ~segments_per_wav.given
            THEN [w \in DOMAIN wavs |-> [wav |-> wavs[w], start |-> 0, length |-> LenOf(wavs[w])]]
            ELSE FlattenSegments(wavs, segments_per_wav.list, min_length, 1)
    IN  [kind        |-> "NoiseDataset",
         shapes      |-> [k \in {"input"} |-> common_shape(wavs)],
         dtypes      |-> [k \in {"input"} |-> wavs[1].dtype],
         num_classes |-> 0,
         num_items   |-> Len(segments),
         segments    |-> segments]

FixedSizeExcerpts(dataset, length, deterministic, key) ==
    [kind          |-> "FixedSizeExcerpts",
     shapes        |-> [dataset.shapes EXCEPT ![key] = <<length>> \o Tail(dataset.shapes[key])],
     dtypes        |-> dataset.dtypes,
     num_classes   |-> dataset.num_classes,
     num_items     |-> LenDataset(dataset),
     dataset       |-> dataset,
     length        |-> length,
     deterministic |-> deterministic,
     key           |-> key]

Reversed(sq) == [i \in DOMAIN sq |-> sq[Len(sq) + 1 - i]]

Floatify(dataset, transpose, key) ==
    [kind        |-> "Floatify",
     shapes      |-> IF transpose
                     THEN [dataset.shapes EXCEPT ![key] = Reversed(dataset.shapes[key])]
                     ELSE dataset.shapes,
     dtypes      |-> [dataset.dtypes EXCEPT ![key] = "float32"],
     num_classes |-> dataset.num_classes,
     num_items   |-> LenDataset(dataset),
     dataset     |-> dataset,
     transpose   |-> transpose,
     key         |-> key]

MixBackgroundNoise(dataset, noisedataset, key, probability, min_factor, max_factor, min_amp, max_amp, noise_only_probability, label_keys) ==
    [kind                   |-> "MixBackgroundNoise",
     shapes                 |-> dataset.shapes,
     dtypes                 |-> dataset.dtypes,
     num_classes            |-> dataset.num_classes,
     num_items              |-> LenDataset(dataset),
     dataset                |-> dataset,
     noisedataset           |-> noisedataset,
     key                    |-> key,
     probability            |-> probability,
     min_factor             |-> min_factor,
     max_factor             |-> max_factor,
     min_amp                |-> min_amp,
     max_amp                |-> max_amp,
     noise_only_probability |-> noise_only_probability,
     label_keys             |-> label_keys]

\* axis as a position 1..ndim of a shape tuple; a negative axis counts from
\* the end
AxisPos(axis, nd) == IF axis < 0 THEN axis + nd + 1 ELSE axis + 1

DownmixChannels(dataset, key, axis, method) ==
    [kind        |-> "DownmixChannels",
     shapes      |-> [dataset.shapes EXCEPT
                         ![key] = [@ EXCEPT ![AxisPos(axis, Len(dataset.shapes[key]))] = 1]],
     dtypes      |-> dataset.dtypes,
     num_classes |-> dataset.num_classes,
     num_items   |-> LenDataset(dataset),
     dataset     |-> dataset,
     key         |-> key,
     axis        |-> axis,
     method      |-> method]

Mixup(dataset, keys, binarize_keys, alpha) ==
    [kind          |-> "Mixup",
     shapes        |-> dataset.shapes,
     dtypes        |-> dataset.dtypes,
     num_classes   |-> dataset.num_classes,
     num_items     |-> LenDataset(dataset),
     dataset       |-> dataset,
     keys          |-> keys,
     binarize_keys |-> binarize_keys,
     alpha         |-> alpha]

-----------------------------------------------------------------------------
(* __getitem__.  Item mappings are dicts with an identity: heap[id] is the   *)
(* dict with identity id, a function from field names to arrays.  A call     *)
(* yields an outcome [status, heap, id, log]: status is "returned" or the    *)
(* exception raised, heap the dicts after the call, id the returned dict,    *)
(* and log one entry per __getitem__ that returned inside the call, in       *)
(* order of return: [path, idx, id, snap, up, draws], where path leads from  *)
(* the outermost dataset to the one called, snap is the dict as returned, up *)
(* the dicts the call got from the datasets it wraps, and draws the random   *)
(* numbers it drew.  GetItem is the set of outcomes over all draws.          *)

Raised(exc, h, log) == [status |-> exc, heap |-> h, id |-> 0, log |-> log]

ReturnedItem(h, id, log, path, idx, up, draws) ==
    [status |-> "returned", heap |-> h, id |-> id,
     log |-> Append(log, [path |-> path, idx |-> idx, id |-> id, snap |-> h[id],
                          up |-> up, draws |-> draws])]

\* a new dict with the given contents
NewDict(h, contents) == [heap |-> Append(h, contents), id |-> Len(h) + 1]

\* the dict id itself, not a copy
DictAlias(h, id) == [heap |-> h, id |-> id]

\* dict(item): a new dict with the entries of the dict id
DictCopy(h, id) == NewDict(h, h[id])

\* item[key] = value
SetItem(h, id, key, value) ==
    [h EXCEPT ![id] = [k \in DOMAIN h[id] \cup {key} |-> IF k = key THEN value ELSE h[id][k]]]

\* seq[idx] of a Python sequence: a negative idx counts from the end
InIndexRange(seq, idx) == -Len(seq) <= idx /\ idx < Len(seq)

PyIndex(seq, idx) == IF idx < 0 THEN seq[idx + Len(seq) + 1] ELSE seq[idx + 1]

NoDraws == [none |-> TRUE]

BirdcallGetItem(self, path, idx, h, log) ==
    IF ~InIndexRange(self.itemids, idx) \/ ~InIndexRange(self.wavs, idx)
    THEN Raised("IndexError", h, log)
    ELSE LET base == [k \in {"itemid", "input"} |->
                         IF k = "itemid" THEN PyIndex(self.itemids, idx)
                         ELSE PyIndex(self.wavs, idx)]
             rest == DOMAIN self.shapes \ {"itemid", "input"}
         IN  IF \E k \in rest : ~InIndexRange(self.annotations.cols[k], idx)
             THEN Raised("IndexError", h, log)
             ELSE LET item == [k \in DOMAIN self.shapes |->
                                  IF k \in rest THEN PyIndex(self.annotations.cols[k], idx)
                                  ELSE base[k]]
                      d == NewDict(h, item)
                  IN  ReturnedItem(d.heap, d.id, log, path, idx, <<>>, NoDraws)

NoiseGetItem(self, path, idx, h, log) ==
    IF ~InIndexRange(self.segments, idx)
    THEN Raised("IndexError", h, log)
    ELSE LET seg == PyIndex(self.segments, idx)
             d == NewDict(h, [k \in {"input"} |->
                                 SliceFirst(seg.wav, seg.start, seg.start + seg.length)])
         IN  ReturnedItem(d.heap, d.id, log, path, idx, <<>>, NoDraws)

\* FixedSizeExcerpts.__getitem__ after self.dataset[idx] returned u
FixedSizeExcerptsStep(self, path, idx, u) ==
    LET d == DictCopy(u.heap, u.id)
    IN  IF self.key \notin DOMAIN d.heap[d.id]
        THEN {Raised("KeyError", d.heap, u.log)}
        ELSE LET data == d.heap[d.id][self.key]
             IN  IF LenOf(data) < self.length
                 THEN {ReturnedItem(SetItem(d.heap, d.id, self.key, loop(data, self.length)),
                                    d.id, u.log, path, idx, <<u.id>>, NoDraws)}
                 ELSE IF LenOf(data) > self.length
                 THEN IF self.deterministic
                      THEN {ReturnedItem(SetItem(d.heap, d.id, self.key,
                                                 crop(data, self.length, TRUE, 0)),
                                         d.id, u.log, path, idx, <<u.id>>, NoDraws)}
                      ELSE {ReturnedItem(SetItem(d.heap, d.id, self.key,
                                                 crop(data, self.length, FALSE, pos)),
                                         d.id, u.log, path, idx, <<u.id>>, [pos |-> pos]) :
                               pos \in CropPositions(data, self.length)}
                 ELSE {ReturnedItem(SetItem(d.heap, d.id, self.key, data),
                                    d.id, u.log, path, idx, <<u.id>>, NoDraws)}

\* Floatify.__getitem__ after self.dataset[idx] returned u
FloatifyStep(self, path, idx, u) ==
    LET d == DictCopy(u.heap, u.id)
    IN  IF self.key \notin DOMAIN d.heap[d.id]
        THEN {Raised("KeyError", d.heap, u.log)}
        ELSE LET data == d.heap[d.id][self.key]
                 turned == IF self.transpose THEN Transposed(data) ELSE data
             IN  {ReturnedItem(SetItem(d.heap, d.id, self.key, to_float(turned)),
                               d.id, u.log, path, idx, <<u.id>>, NoDraws)}

\* the values np.random.rand() can return
RandVals == {Rat(k, RandDen) : k \in 0..(RandDen - 1)}

\* the values np.random.beta(alpha, alpha) can return
BetaVals == {Rat(k, BetaDen) : k \in 1..(BetaDen - 1)}

\* lo + u * (hi - lo)
Between(lo, hi, u) == RatNorm(RatAdd(lo, RatMul(u, RatSub(hi, lo))))

\* the scaling factors get_noise can draw, each with the draws made for it
AmpFactors(self) ==
    IF ~RatEq(self.min_amp, self.max_amp)
    THEN {[factor |-> Between(self.min_amp, self.max_amp, u), rand |-> <<u>>] : u \in RandVals}
    ELSE {[factor |-> self.min_amp, rand |-> <<>>]}

\* wav * (factor / max_amplitude), with max_amplitude = abs(wav).max() or 1
Normalized(wav, factor) ==
    LET peak == MaxAbs(wav)
        max_amplitude == IF peak.num = 0 THEN One ELSE peak
    IN  ScalarTimes(RatNorm(Rat(factor.num * max_amplitude.den,
                                factor.den * max_amplitude.num)), wav)

\* get_noise after self.noisedataset[j] returned n: the outcomes
\* [status, heap, log, id, wav, rand]
NoiseFrom(self, n) ==
    IF n.status # "returned"
    THEN {[status |-> n.status, heap |-> n.heap, log |-> n.log, id |-> 0, wav |-> 0, rand |-> <<>>]}
    ELSE IF self.key \notin DOMAIN n.heap[n.id]
    THEN {[status |-> "KeyError", heap |-> n.heap, log |-> n.log, id |-> 0, wav |-> 0, rand |-> <<>>]}
    ELSE LET wav == n.heap[n.id][self.key]
         IN  IF RatEq(self.max_amp, Zero)
             THEN {[status |-> "returned", heap |-> n.heap, log |-> n.log, id |-> n.id,
                    wav |-> wav, rand |-> <<>>]}
             ELSE {IF Elems(wav.data, NDim(wav)) = {}
                   THEN [status |-> "ValueError", heap |-> n.heap, log |-> n.log, id |-> 0,
                         wav |-> 0, rand |-> f.rand]
                   ELSE [status |-> "returned", heap |-> n.heap, log |-> n.log, id |-> n.id,
                         wav |-> Normalized(wav, f.factor), rand |-> f.rand] :
                      f \in AmpFactors(self)}

\* a + b, or the ValueError numpy raises for operands of different shapes
\* (the model builds no operands that broadcast)
SameShape(a, b) == a.shape = b.shape

\* the two weights exchanged
BlendSwapped(original, noise, noise_factor) ==
    Plus(ScalarTimes(noise_factor, original),
         ScalarTimes(RatNorm(RatSub(One, noise_factor)), noise))

\* (1 - noise_factor) * original + noise_factor * noise
Blend(original, noise, noise_factor) ==
    Plus(ScalarTimes(RatNorm(RatSub(One, noise_factor)), original),
         ScalarTimes(noise_factor, noise))

\* the noise-only test: made when noise_only_probability > 0, with the draw u
NoiseOnlyFires(self, u) == RatLess(u, self.noise_only_probability)

\* the mixing test with the draw u (not made when probability == 1)
MixFires(self, u) == RatLess(u, self.probability)

\* np.zeros_like(item[k]) for every k of label_keys
ZeroLabels(self, item) ==
    [k \in DOMAIN item |-> IF k \in self.label_keys THEN ZerosLike(item[k]) ELSE item[k]]

\* the labels as they are
KeepLabels(self, item) == item

NoiseOnlyLabels(self, item) == ZeroLabels(self, item)

RECURSIVE GetItem(_, _, _, _, _)

\* get_noise: a noise excerpt at a random index, normalized and scaled
GetNoise(self, path, h, log) ==
    IF LenDataset(self.noisedataset) <= 0
    THEN {[status |-> "ValueError", heap |-> h, log |-> log, id |-> 0, wav |-> 0, rand |-> <<>>]}
    ELSE UNION {UNION {NoiseFrom(self, n) :
                          n \in GetItem(self.noisedataset, Append(path, "noisedataset"), j, h, log)} :
                   j \in RandInt(LenDataset(self.noisedataset))}

\* MixBackgroundNoise.__getitem__ after self.dataset[idx] returned u
MixBackgroundNoiseStep(self, path, idx, u) ==
    LET d == DictCopy(u.heap, u.id)
        item == d.heap[d.id]
        Done(h, log, contents, up, rand) ==
            ReturnedItem([h EXCEPT ![d.id] = contents], d.id, log, path, idx, up,
                         [rand |-> rand])
        \* the noise-only branch
        NoiseOnly(rand) ==
            {IF g.status # "returned" THEN Raised(g.status, g.heap, g.log)
             ELSE IF self.label_keys \ (DOMAIN item \cup {self.key}) # {}
             THEN Raised("KeyError", g.heap, g.log)
             ELSE Done(g.heap, g.log,
                       NoiseOnlyLabels(self, [k \in DOMAIN item \cup {self.key} |->
                                                 IF k = self.key THEN g.wav ELSE item[k]]),
                       <<u.id, g.id>>, rand \o g.rand) :
                g \in GetNoise(self, path, d.heap, u.log)}
        \* the mixing branch
        Mix(rand) ==
            IF self.key \notin DOMAIN item
            THEN {Raised("KeyError", d.heap, u.log)}
            ELSE UNION {
                   {IF g.status # "returned" THEN Raised(g.status, g.heap, g.log)
                    ELSE IF ~SameShape(item[self.key], g.wav)
                    THEN Raised("ValueError", g.heap, g.log)
                    ELSE Done(g.heap, g.log,
                              [item EXCEPT ![self.key] =
                                  Blend(item[self.key], g.wav,
                                        Between(self.min_factor, self.max_factor, f))],
                              <<u.id, g.id>>, rand \o <<f>> \o g.rand) :
                       g \in GetNoise(self, path, d.heap, u.log)} :
                   f \in RandVals}
        Pass(rand) == {Done(d.heap, u.log, item, <<u.id>>, rand)}
        MixOrPass(rand) ==
            IF RatLess(Zero, self.probability)
            THEN IF RatEq(self.probability, One) THEN Mix(rand)
                 ELSE UNION {IF MixFires(self, v) THEN Mix(rand \o <<v>>)
                             ELSE Pass(rand \o <<v>>) : v \in RandVals}
            ELSE Pass(rand)
    IN  IF RatLess(Zero, self.noise_only_probability)
        THEN UNION {IF NoiseOnlyFires(self, v) THEN NoiseOnly(<<v>>) ELSE MixOrPass(<<v>>) :
                       v \in RandVals}
        ELSE MixOrPass(<<>>)

\* the weight vectors np.random.dirichlet(np.ones(n)) can return, as integer
\* numerators over n + 1: one channel weighted twice the others
DirichletDraws(n) == {[c \in 1..n |-> IF c = heavy THEN 2 ELSE 1] : heavy \in 1..n}

\* DownmixChannels.__getitem__ after self.dataset[idx] returned u
DownmixChannelsStep(self, path, idx, u) ==
    LET d == DictCopy(u.heap, u.id)
    IN  IF self.key \notin DOMAIN d.heap[d.id]
        THEN {Raised("KeyError", d.heap, u.log)}
        ELSE LET wav == d.heap[d.id][self.key]
                 ax  == AxisPos(self.axis, NDim(wav))
                 num_channels == wav.shape[ax]
                 Done(data, draws) ==
                     ReturnedItem(SetItem(d.heap, d.id, self.key, data),
                                  d.id, u.log, path, idx, <<u.id>>, draws)
             IN  IF num_channels > 1 /\ self.method = "average"
                 THEN {Done(MeanOver(wav, ax), NoDraws)}
                 ELSE IF num_channels > 1 /\ self.method = "random_uniform"
                 THEN {Done(WeightedOver(wav, ax, w, num_channels + 1), [weights |-> w]) :
                          w \in DirichletDraws(num_channels)}
                 ELSE {Done(wav, NoDraws)}

\* the dtype the binarized field is cast to: that of the value being binarized
BinarizeDtype(self, value, k) == value.dtype

\* w1 * item1[k] + w2 * item2[k]
MixupBlend(w1, a, w2, b) == Plus(ScalarTimes(w1, a), ScalarTimes(w2, b))

MixupValue(w1, a, w2, b) == MixupBlend(w1, a, w2, b)

\* (item[k] > 0.0).astype(item[k].dtype)
Binarized(self, value, k) == PositiveAs(value, BinarizeDtype(self, value, k))

BinarizedField(self, value, k) == Binarized(self, value, k)

\* Mixup.__getitem__ after item1 = self.dataset[idx] returned u1 and
\* item2 = self.dataset[j] returned u2, with the drawn weight w1
MixupStep(self, path, idx, u1, u2, j, w1) ==
    LET w2    == RatNorm(RatSub(One, w1))
        item1 == u2.heap[u1.id]
        item2 == u2.heap[u2.id]
        d     == DictCopy(u2.heap, IF ~RatLess(w1, w2) THEN u1.id ELSE u2.id)
        item  == d.heap[d.id]
        draws == [idx2 |-> j, w1 |-> w1]
    IN  IF \E k \in self.keys : k \notin DOMAIN item1 \/ k \notin DOMAIN item2
        THEN Raised("KeyError", d.heap, u2.log)
        ELSE IF \E k \in self.keys : ~SameShape(item1[k], item2[k])
        THEN Raised("ValueError", d.heap, u2.log)
        ELSE LET mixed == [k \in DOMAIN item \cup self.keys |->
                              IF k \in self.keys
                              THEN MixupValue(w1, item1[k], w2, item2[k])
                              ELSE item[k]]
             IN  IF \E k \in self.binarize_keys : k \notin DOMAIN mixed
                 THEN Raised("KeyError", d.heap, u2.log)
                 ELSE ReturnedItem(
                          [d.heap EXCEPT ![d.id] =
                              [k \in DOMAIN mixed |->
                                  IF k \in self.binarize_keys
                                  THEN BinarizedField(self, mixed[k], k)
                                  ELSE mixed[k]]],
                          d.id, u2.log, path, idx, <<u1.id, u2.id>>, draws)

\* Mixup.__getitem__: the second item is drawn after the first was fetched
MixupOutcomes(self, path, idx, u1) ==
    IF LenDataset(self.dataset) <= 0
    THEN {Raised("ValueError", u1.heap, u1.log)}
    ELSE UNION {UNION {IF u2.status # "returned" THEN {u2}
                       ELSE {MixupStep(self, path, idx, u1, u2, j, w1) : w1 \in BetaVals} :
                          u2 \in GetItem(self.dataset, Append(path, "dataset"), j, u1.heap, u1.log)} :
                   j \in RandInt(LenDataset(self.dataset))}


\* a wrapper's __getitem__: self.dataset[idx] first, and its exception, if
\* any, is the wrapper's
StepOf(d, path, idx, u) ==
    CASE d.kind = "FixedSizeExcerpts"  -> FixedSizeExcerptsStep(d, path, idx, u)
      [] d.kind = "Floatify"           -> FloatifyStep(d, path, idx, u)
      [] d.kind = "MixBackgroundNoise" -> MixBackgroundNoiseStep(d, path, idx, u)
      [] d.kind = "DownmixChannels"    -> DownmixChannelsStep(d, path, idx, u)
      [] d.kind = "Mixup"              -> MixupOutcomes(d, path, idx, u)

\* the outcomes of d[idx], called with the dicts h and the log so far
GetItem(d, path, idx, h, log) ==
    CASE d.kind = "BirdcallDataset" -> {BirdcallGetItem(d, path, idx, h, log)}
      [] d.kind = "NoiseDataset" -> {NoiseGetItem(d, path, idx, h, log)}
      [] OTHER ->
            UNION {IF u.status = "returned" THEN StepOf(d, path, idx, u) ELSE {u} :
                      u \in GetItem(d.dataset, Append(path, "dataset"), idx, h, log)}

-----------------------------------------------------------------------------
(* The segment detector as a state machine: Init draws the arguments, the    *)
(* one action applies the function.                                          *)

\* time points on a quarter-second grid, interval bounds on a half-second grid
PointGrid == {Rat(n, 4) : n \in 0..MaxTick}

IntervalGrid == {Rat(n, 2) : n \in 0..(MaxTick \div 2)}

PointRows == {[t |-> x] : x \in PointGrid}

IntervalRows == {[b |-> x, e |-> y] : x, y \in IntervalGrid}

SampleRates == {1, 4}

\* one or two seconds of audio
LengthsFor(sr) == {sr, 2 * sr}

\* the table of two calls [0,10) and [5,15) over 30 samples at 1 Hz
OverlapExample ==
    [schema |-> "interval",
     rows |-> <<[b |-> Rat(0, 1), e |-> Rat(10, 1)], [b |-> Rat(5, 1), e |-> Rat(15, 1)]>>,
     sample_rate |-> 1,
     length |-> 30]

\* the rows of a table of neither layout are never read
TablesOf(sc) ==
    CASE sc = "point" -> SeqsUpTo(PointRows, MaxRows)
      [] sc = "interval" -> SeqsUpTo(IntervalRows, MaxRows)
      [] OTHER -> {<<>>}

SegInputs ==
    UNION {UNION {{[schema |-> sc, rows |-> r, sample_rate |-> sr, length |-> n] :
                      r \in TablesOf(sc), n \in LengthsFor(sr)} :
                  sc \in {"point", "interval", "other"}} :
           sr \in SampleRates}
    \cup {OverlapExample}

NoDataset == [kind |-> "none"]

\* args when no NoiseDataset was built from recorded arguments
NoArgs == [wavs |-> <<>>, segments_per_wav |-> [given |-> FALSE, list |-> <<>>], min_length |-> 0]

\* attr before a lookup
NoLookup == [name |-> "", status |-> "none", value |-> "", depth |-> 0]

\* ret before the first call, with the number of calls still to be made
NoCall(left) == [left |-> left, idx |-> 0, status |-> "none", id |-> 0, held |-> 0]

InitSeg ==
    /\ segIn \in SegInputs
    /\ segOut = [status |-> "none", segments |-> <<>>]
    /\ ds = NoDataset
    /\ heap = <<>>
    /\ ret = NoCall(0)
    /\ trace = <<>>
    /\ attr = NoLookup
    /\ args = NoArgs

ReadNoiseCsv ==
    /\ segOut.status = "none"
    /\ segOut' = read_noise_csv(segIn)
    /\ UNCHANGED <<segIn, ds, heap, ret, trace, attr, args>>

NextSeg == ReadNoiseCsv

SpecSeg == InitSeg /\ [][NextSeg]_vars

-----------------------------------------------------------------------------
(* The datasets as a state machine: Init builds a dataset object, each step  *)
(* is one call ds[idx] by the consumer, with an index in or out of range.    *)

Indices(d) == (-(LenDataset(d) + 1))..LenDataset(d)

\* the dicts still referenced when the consumer makes its next call: the item
\* it was handed last, if any; every other dict of the last call is garbage
HeldItems == IF ret.status = "returned" THEN <<heap[ret.id]>> ELSE <<>>

GetItemCall(idx) ==
    /\ ds.kind # "none"
    /\ ret.left > 0
    /\ \E o \in GetItem(ds, <<>>, idx, HeldItems, <<>>) :
          /\ heap' = o.heap
          /\ ret' = [left |-> ret.left - 1, idx |-> idx, status |-> o.status, id |-> o.id,
                     held |-> Len(HeldItems)]
          /\ trace' = o.log
    /\ UNCHANGED <<segIn, segOut, ds, attr, args>>

NextGet == \E idx \in Indices(ds) : GetItemCall(idx)

NoTable == [schema |-> "other", rows |-> <<>>, sample_rate |-> 1, length |-> 0]

InitWith(datasets, calls) ==
    /\ ds \in datasets
    /\ heap = <<>>
    /\ ret = NoCall(calls)
    /\ trace = <<>>
    /\ segIn = NoTable
    /\ segOut = [status |-> "none", segments |-> <<>>]
    /\ attr = NoLookup
    /\ args = NoArgs

\* a wave file of n frames: 1-d when ch = 0, else n frames of ch channels;
\* the samples are distinct multiples of 2048 counted from seed
Wav(n, ch, seed) ==
    IF ch = 0
    THEN Arr("int16", <<n>>, 1, [i \in 1..n |-> 2048 * (i - 1 + seed)])
    ELSE Arr("int16", <<n, ch>>, 1,
             [i \in 1..n |-> [c \in 1..ch |-> 2048 * ((i - 1) * ch + c - 1 + seed)]])

Labelset == <<"aldfly", "ameavo">>

U8(v) == Arr("uint8", <<>>, 1, v)

U8Vec(v) == Arr("uint8", <<Len(v)>>, 1, v)

F32(n, d) == Reduced(Arr("float32", <<>>, d, n))

F32Vec(v, d) == Reduced(Arr("float32", <<Len(v)>>, d, v))

\* an annotation table for two items
Annotations ==
    [given |-> TRUE,
     cols  |-> [k \in LabelKeys |->
                   CASE k = "label_fg"  -> <<U8(0), U8(1)>>
                     [] k = "label_bg"  -> <<U8Vec(<<0, 1>>), U8Vec(<<0, 0>>)>>
                     [] k = "label_all" -> <<F32Vec(<<4, 1>>, 4), F32Vec(<<-4, 4>>, 4)>>
                     [] k = "rating"    -> <<F32(7, 2), F32(0, 1)>>]]

\* a BirdcallDataset of two recordings of lens[1] and lens[2] frames
BirdLeaf(lens, ch, annotated) ==
    BirdcallDataset(<<"XC1", "XC2">>,
                    [i \in 1..2 |-> Wav(lens[i], ch, IF i = 1 THEN 1 ELSE -2)],
                    Labelset,
                    IF annotated THEN Annotations ELSE NoAnnotations)

\* a one-item dataset holding the 1-d array v
ArrayLeaf(v) ==
    BirdcallDataset(<<"XC1">>, <<Arr("int16", <<Len(v)>>, 1, v)>>, Labelset, NoAnnotations)

LoopExample == FixedSizeExcerpts(ArrayLeaf(<<1, 2, 3>>), 7, FALSE, "input")

CropExample == FixedSizeExcerpts(ArrayLeaf(<<0, 1, 2, 3, 4, 5>>), 4, TRUE, "input")

ExcerptDatasets ==
    {FixedSizeExcerpts(BirdLeaf(lens, ch, annotated), length, deterministic, "input") :
        lens \in [1..2 -> 0..MaxLen], ch \in {0, 2}, annotated \in BOOLEAN,
        length \in 0..MaxTarget, deterministic \in BOOLEAN}
    \cup {LoopExample, CropExample}

InitExcerpts == InitWith(ExcerptDatasets, 1)

SpecExcerpts == InitExcerpts /\ [][NextGet]_vars

\* a NoiseDataset of two wave files of lens[1] and lens[2] frames, each one
\* segment
NoiseLeaf(lens, ch) ==
    NoiseDataset([i \in 1..2 |-> Wav(lens[i], ch, IF i = 1 THEN -1 ELSE 3)], NoSegments, 0)

\* the chain create() builds before the augmentations: excerpts of a fixed
\* length, converted to float with the channels first
TrainBase(leaf, length, deterministic) ==
    Floatify(FixedSizeExcerpts(leaf, length, deterministic, "input"), TRUE, "input")

Probabilities == {Zero, Rat(1, 2), One}

\* (min, max) pairs for the mixing factor and for the amplitude
FactorRanges == {<<Rat(1, 4), Rat(1, 4)>>, <<Zero, Rat(1, 2)>>}

AmpRanges == {<<Zero, Zero>>, <<Rat(1, 2), Rat(1, 2)>>, <<Rat(1, 4), One>>}

LabelKeySets == {{}, {"label_fg"}, {"label_fg", "label_bg", "label_all"}}

NoiseMixDatasets ==
    {MixBackgroundNoise(TrainBase(BirdLeaf(<<2, 3>>, 2, TRUE), 2, TRUE),
                        TrainBase(NoiseLeaf(nl, 2), 2, FALSE),
                        "input", pr, fr[1], fr[2], ar[1], ar[2], nop, lk) :
        pr \in Probabilities, nop \in Probabilities, fr \in FactorRanges,
        ar \in AmpRanges, lk \in LabelKeySets, nl \in {<<2, 3>>, <<0, 2>>}}

InitNoiseMix == InitWith(NoiseMixDatasets, 1)

SpecNoiseMix == InitNoiseMix /\ [][NextGet]_vars

\* the concentration parameter; the draws of np.random.beta are BetaVals
Alpha == Rat(3, 10)

MixupDatasets ==
    {Mixup(base, keys, binarize_keys, Alpha) :
        base \in {BirdLeaf(<<2, 2>>, 2, TRUE),
                  TrainBase(BirdLeaf(<<2, 3>>, 2, TRUE), 2, TRUE)},
        keys \in SUBSET {"input", "label_fg", "label_bg", "label_all"},
        binarize_keys \in SUBSET {"label_fg", "label_bg", "label_all"}}

InitMixup == InitWith(MixupDatasets, 1)

SpecMixup == InitMixup /\ [][NextGet]_vars

\* The datasets of the general specification: the leaves, and wrappers
\* stacked in the order create() stacks them and in other orders.
Leaves(ch) ==
    {BirdLeaf(lens, ch, annotated) : lens \in {<<2, 3>>, <<0, 1>>}, annotated \in BOOLEAN}
    \cup {NoiseLeaf(<<2, 3>>, ch)}

Excerpts(ch) ==
    {FixedSizeExcerpts(leaf, length, deterministic, "input") :
        leaf \in Leaves(ch), length \in {1, 2}, deterministic \in BOOLEAN}

Floats(ch) ==
    {Floatify(d, transpose, "input") : d \in Excerpts(ch), transpose \in BOOLEAN}

\* the fixed-size float chains over the annotated two-channel recordings
Bases ==
    {TrainBase(BirdLeaf(<<2, 3>>, 2, TRUE), 2, deterministic) : deterministic \in BOOLEAN}

NoiseBase == TrainBase(NoiseLeaf(<<2, 3>>, 2), 2, FALSE)

Mixes ==
    {MixBackgroundNoise(base, NoiseBase, "input", pn[1], Rat(1, 4), Rat(1, 4),
                        Zero, Zero, pn[2], {"label_fg", "label_bg"}) :
        base \in Bases, pn \in {<<One, Zero>>, <<Rat(1, 2), Rat(1, 2)>>, <<Zero, Zero>>}}
    \cup
    \* mixing 16-bit samples, without Floatify
    {MixBackgroundNoise(FixedSizeExcerpts(BirdLeaf(<<2, 3>>, 2, TRUE), 2, TRUE, "input"),
                        FixedSizeExcerpts(NoiseLeaf(<<2, 3>>, 2), 2, TRUE, "input"),
                        "input", One, Zero, Rat(1, 2), Rat(1, 2), Rat(1, 2), Zero, {})}

Downmixes ==
    {DownmixChannels(d, "input", 0, method) :
        d \in Bases \cup {m \in Mixes : m.probability = One /\ m.dataset \in Bases},
        method \in {"average", "random_uniform", "none"}}
    \cup
    \* the channels last, as the wave files hold them
    {DownmixChannels(FixedSizeExcerpts(BirdLeaf(<<2, 3>>, 2, annotated), 2, TRUE, "input"),
                     "input", -1, method) :
        annotated \in BOOLEAN, method \in {"average", "random_uniform"}}

Mixups ==
    {Mixup(d, keys, binarize_keys, Alpha) :
        d \in {TrainBase(BirdLeaf(<<2, 3>>, 2, TRUE), 2, TRUE),
               DownmixChannels(TrainBase(BirdLeaf(<<2, 3>>, 2, TRUE), 2, TRUE), "input", 0, "average")},
        keys \in {{"input", "label_all"}, {"input", "label_bg"}},
        binarize_keys \in {{}, {"label_bg"}}}
    \cup {Mixup(BirdLeaf(<<2, 3>>, 2, TRUE), {"label_fg", "rating"}, {}, Alpha)}

\* the chains over one-channel recordings (wave forms without a channel axis)
MonoPipelines == Leaves(0) \cup Excerpts(0) \cup Floats(0)

\* the chains over two-channel recordings
StereoPipelines ==
    Leaves(2) \cup Excerpts(2) \cup Floats(2) \cup Mixes \cup Downmixes \cup Mixups

Init == InitWith(MonoPipelines, MaxCalls) \/ InitWith(StereoPipelines, MaxCalls)

Spec == Init /\ [][NextGet]_vars

-----------------------------------------------------------------------------
(* Attribute lookup.  A dataset object's instance attributes are the fields  *)
(* of its record (kind stands for its class).  Python looks a name up on the *)
(* instance and its class first and calls __getattr__ only when that fails.  *)

\* the most wrappers around a leaf
MaxWraps == 2

Wrappers == {"FixedSizeExcerpts", "Floatify", "MixBackgroundNoise", "DownmixChannels", "Mixup"}

InstanceAttrs(self) == DOMAIN self \ {"kind"}

\* the methods a class defines besides the special ones
ClassAttrs(self) == IF self.kind = "MixBackgroundNoise" THEN {"get_noise"} ELSE {}

\* the normal lookup of name on self succeeds
Defines(self, name) == name \in InstanceAttrs(self) \cup ClassAttrs(self)

\* what the normal lookup returns: the instance attribute, or the method
\* bound to the object at this depth of the chain
OwnValue(self, name, depth) ==
    IF name \in InstanceAttrs(self) THEN self[name] ELSE [method |-> name, self |-> depth]

\* no class defines __getattr__
NoGetattr(self) == FALSE

\* the class of self defines __getattr__
HasGetattr(self) == self.kind \in Wrappers

RECURSIVE GetAttr(_, _, _)
\* getattr(self, name), self being depth wrappers below the outermost one
GetAttr(self, name, depth) ==
    IF Defines(self, name)
    THEN [name |-> name, status |-> "value", value |-> OwnValue(self, name, depth), depth |-> depth]
    ELSE IF HasGetattr(self)
    THEN GetAttr(self.dataset, name, depth + 1)
    ELSE [name |-> name, status |-> "AttributeError", value |-> "", depth |-> depth]

RECURSIVE Depth(_)
\* the number of wrappers around the leaf
Depth(self) == IF self.kind \in Wrappers THEN 1 + Depth(self.dataset) ELSE 0

RECURSIVE StageAt(_, _)
\* the object n levels below self
StageAt(self, n) == IF n = 0 THEN self ELSE StageAt(self.dataset, n - 1)

RECURSIVE SetAttrAt(_, _, _, _)
\* the chain after setattr(obj, name, value) on the object n levels below
SetAttrAt(self, n, name, value) ==
    IF n = 0 THEN (name :> value) @@ self
    ELSE [self EXCEPT !.dataset = SetAttrAt(self.dataset, n - 1, name, value)]

\* the sampler object assigned to the object n levels below the outermost
SamplerFor(n) == [sampler |-> "ClassWeightedRandomSampler", of |-> n]

\* the training code assigns a sampler to a dataset object of the chain
SetSampler(n) ==
    /\ ds.kind # "none"
    /\ n \in 0..Depth(ds)
    /\ ~Defines(StageAt(ds, n), "sampler")
    /\ ds' = SetAttrAt(ds, n, "sampler", SamplerFor(n))
    /\ attr' = NoLookup
    /\ UNCHANGED <<segIn, segOut, heap, ret, trace, args>>

AttrNames ==
    {"sampler", "itemids", "segments", "length", "key", "transpose", "alpha",
     "get_noise", "num_items", "shapes", "nothing"}

\* the training code reads an attribute of the outermost dataset
GetAttrCall(name) ==
    /\ ds.kind # "none"
    /\ attr' = GetAttr(ds, name, 0)
    /\ UNCHANGED <<segIn, segOut, ds, heap, ret, trace, args>>

NextAttr ==
    \/ \E n \in 0..MaxWraps : SetSampler(n)
    \/ \E name \in AttrNames : GetAttrCall(name)

AttrLeaves == {BirdLeaf(<<1, 1>>, 0, FALSE), NoiseLeaf(<<1, 1>>, 0)}

\* each wrapper class around d
WrapsOf(d) ==
    {FixedSizeExcerpts(d, 1, TRUE, "input"),
     Floatify(d, FALSE, "input"),
     MixBackgroundNoise(d, NoiseLeaf(<<1, 1>>, 0), "input", One, Zero, Rat(1, 2), Zero, Zero, Zero, {}),
     DownmixChannels(d, "input", 0, "average"),
     Mixup(d, {"input"}, {}, Alpha)}

RECURSIVE Chains(_)
\* the leaves under up to n wrappers
Chains(n) ==
    IF n = 0 THEN AttrLeaves
    ELSE LET C == Chains(n - 1) IN C \cup UNION {WrapsOf(d) : d \in C}

InitAttr == InitWith(Chains(MaxWraps), 0)

SpecAttr == InitAttr /\ [][NextAttr]_vars

-----------------------------------------------------------------------------
(* NoiseDataset built from recorded arguments: two wave files, segments      *)
(* given per wave file or omitted, and a minimal length.                     *)

\* the most segments of one wave file
MaxSegs == 2

\* the (start, length) pairs inside a wave file of n frames
SegmentsWithin(n) == {p \in (0..n) \X (0..n) : p[1] + p[2] <= n}

NoiseArgs ==
    {[wavs |-> <<Wav(3, 0, 1), Wav(2, 0, -2)>>, segments_per_wav |-> sp, min_length |-> ml] :
        sp \in {NoSegments}
               \cup {[given |-> TRUE, list |-> <<s1, s2>>] :
                        s1 \in SeqsUpTo(SegmentsWithin(3), MaxSegs),
                        s2 \in SeqsUpTo(SegmentsWithin(2), 1)},
        ml \in 0..MaxLen}

InitNoise ==
    /\ args \in NoiseArgs
    /\ ds = NoiseDataset(args.wavs, args.segments_per_wav, args.min_length)
    /\ heap = <<>>
    /\ ret = NoCall(1)
    /\ trace = <<>>
    /\ segIn = NoTable
    /\ segOut = [status |-> "none", segments |-> <<>>]
    /\ attr = NoLookup

SpecNoise == InitNoise /\ [][NextGet]_vars

-----------------------------------------------------------------------------
(* Properties of the segment detector.                                       *)

Returned == segOut.status = "returned"

\* sample p lies inside the k-th returned segment [start, start + length)
InSegment(p, k) ==
    /\ segOut.segments[k][1] <= p
    /\ p < segOut.segments[k][1] + segOut.segments[k][2]

\* sample p lies inside the i-th call [begin, end) of the table
InCall(p, i) == Beginnings(segIn)[i] <= p /\ p < Endings(segIn)[i]

CallsInRange ==
    \A i \in DOMAIN segIn.rows :
        /\ 0 <= Beginnings(segIn)[i]
        /\ Beginnings(segIn)[i] <= Endings(segIn)[i]
        /\ Endings(segIn)[i] <= segIn.length

\* C3: when every call satisfies 0 <= begin <= end <= total_length, a sample
\* position p of the recording lies in a returned segment if and only if no
\* call contains it.
C3_BirdFreeExactly ==
    (Returned /\ CallsInRange) =>
        \A p \in 0..(segIn.length - 1) :
            (\E k \in DOMAIN segOut.segments : InSegment(p, k))
                <=> ~(\E i \in DOMAIN segIn.rows : InCall(p, i))

\* two overlapping calls, neither nested in the other, and a bird-free stretch
C3_Witness ==
    /\ Returned /\ CallsInRange
    /\ Len(segIn.rows) = 2
    /\ Beginnings(segIn)[1] < Beginnings(segIn)[2]
    /\ Beginnings(segIn)[2] < Endings(segIn)[1]
    /\ Endings(segIn)[1] < Endings(segIn)[2]
    /\ \E k \in DOMAIN segOut.segments : segOut.segments[k][2] > 0

\* C4 as stated: calls [0,10) and [5,15) over 30 samples yield the one-entry
\* list [(15, 15)].
C4_OnlyOneEntry ==
    (Returned /\ segIn = OverlapExample) => segOut.segments = <<(<<15, 15>>)>>

\* C4 as amended: calls [0,10) and [5,15) over 30 samples yield the list
\* [(0, 0), (15, 15)]: the zero-length stretch at the origin and the one
\* non-empty bird-free segment (15, 15).
C4_OriginAndTail ==
    (Returned /\ segIn = OverlapExample) => segOut.segments = <<(<<0, 0>>), (<<15, 15>>)>>

C4_Witness == Returned /\ segIn = OverlapExample

\* half of the call duration the point layout is said to assume
HalfCall == Rat(3, 4)

\* C5: in the point layout a time stamp t is the centre of a 1.5 s call, so
\* no returned segment holds a sample of [t - 0.75 s, t + 0.75 s].
C5_CenteredCall ==
    (Returned /\ segIn.schema = "point") =>
        \A i \in DOMAIN segIn.rows, k \in DOMAIN segOut.segments :
            LET t  == segIn.rows[i].t
                lo == TruncToInt(RatSub(t, HalfCall).num * segIn.sample_rate, RatSub(t, HalfCall).den)
                hi == TruncToInt(RatAdd(t, HalfCall).num * segIn.sample_rate, RatAdd(t, HalfCall).den)
            IN  ~(\E p \in lo..(hi - 1) : InSegment(p, k))

-----------------------------------------------------------------------------
(* Properties of FixedSizeExcerpts over a BirdcallDataset (SpecExcerpts).    *)

Called == ret.status # "none"

ReturnedOk == ret.status = "returned"

IndexValid == 0 <= ret.idx /\ ret.idx < LenDataset(ds)

\* the item the last call returned
Item == heap[ret.id]

\* the log entry of the outermost __getitem__ of the last call
Top == trace[Len(trace)]

\* the item the outermost dataset got from the n-th dataset it called
UpItem(n) == heap[Top.up[n]]

\* the source array of the call: the recording the index names
SourceWav == ds.dataset.wavs[ret.idx + 1]

\* C6: a source shorter than the target length is looped: the call raises no
\* error, the output has exactly the target length, the shape and dtype of
\* the source otherwise, output[i] = source[i mod n] when n > 0, and is all
\* zero when n = 0.
C6_Looping ==
    (Called /\ IndexValid /\ LenOf(SourceWav) < ds.length) =>
        /\ ReturnedOk
        /\ LET out == Item[ds.key]
               n   == LenOf(SourceWav)
           IN  /\ out.shape = <<ds.length>> \o Tail(SourceWav.shape)
               /\ Len(out.data) = ds.length
               /\ out.dtype = SourceWav.dtype
               /\ out.den = SourceWav.den
               /\ n > 0 => \A i \in 0..(ds.length - 1) :
                              out.data[i + 1] = SourceWav.data[(i % n) + 1]
               /\ n = 0 => out.data = ZeroData(out.shape)

\* [1, 2, 3] looped to length 7
C6_Witness ==
    /\ ds = LoopExample /\ ReturnedOk
    /\ Item["input"].data = <<1, 2, 3, 1, 2, 3, 1>>

\* the call ds[idx] returns the window of the source starting at s
CropsAt(idx, s) ==
    /\ GetItemCall(idx)
    /\ heap'[ret'.id][ds.key].data
           = SubSeq(ds.dataset.wavs[idx + 1].data, s + 1, s + ds.length)

\* C7: a source longer than the target length is cropped to a window
\* source[s : s + L]: s = floor((n - L) / 2) in deterministic mode, else s is
\* the drawn position, within 0..n-L, and every such position can be drawn;
\* a source of exactly the target length is returned as it is; and every
\* field but the configured key is the upstream's.
C7_Cropping ==
    /\ (Called /\ IndexValid /\ LenOf(SourceWav) >= ds.length) =>
          /\ ReturnedOk
          /\ LET out == Item[ds.key]
                 n   == LenOf(SourceWav)
                 L   == ds.length
                 s   == IF ds.deterministic THEN (n - L) \div 2 ELSE Top.draws.pos
             IN  IF n = L THEN out = SourceWav
                 ELSE /\ s \in 0..(n - L)
                      /\ out.shape = <<L>> \o Tail(SourceWav.shape)
                      /\ out.dtype = SourceWav.dtype
                      /\ out.data = SubSeq(SourceWav.data, s + 1, s + L)
    /\ ReturnedOk =>
          /\ DOMAIN Item = DOMAIN UpItem(1)
          /\ \A k \in DOMAIN Item \ {ds.key} : Item[k] = UpItem(1)[k]
    /\ (ret.left > 0 /\ ~ds.deterministic) =>
          \A idx \in 0..(LenDataset(ds) - 1) :
              \A s \in 0..(LenOf(ds.dataset.wavs[idx + 1]) - ds.length) :
                  ENABLED CropsAt(idx, s)

\* [0, 1, 2, 3, 4, 5] centre-cropped to length 4
C7_Witness ==
    /\ ds = CropExample /\ ReturnedOk
    /\ Item["input"].data = <<1, 2, 3, 4>>

-----------------------------------------------------------------------------
(* Properties of MixBackgroundNoise (SpecNoiseMix).                          *)

\* the draws of np.random.rand() the outermost __getitem__ made, in order
Rands == Top.draws.rand

NoiseOnlyTested == RatLess(Zero, ds.noise_only_probability)

\* the noise-only test was made and its draw fell below the probability
NoiseOnlyFired == NoiseOnlyTested /\ RatLess(Rands[1], ds.noise_only_probability)

RandsAfterNoiseOnly == IF NoiseOnlyTested THEN Tail(Rands) ELSE Rands

\* the mixing test was made and passed
MixFired ==
    /\ ~NoiseOnlyFired
    /\ RatLess(Zero, ds.probability)
    /\ RatEq(ds.probability, One) \/ RatLess(RandsAfterNoiseOnly[1], ds.probability)

\* the draws left after the tests: the mixing factor's, then the amplitude's
RandsAfterTests ==
    IF NoiseOnlyFired \/ ~RatLess(Zero, ds.probability) \/ RatEq(ds.probability, One)
    THEN RandsAfterNoiseOnly ELSE Tail(RandsAfterNoiseOnly)

\* the noise excerpt of the call: the item the noise dataset returned, scaled
\* when amplitude normalization is on
DrawnNoise ==
    LET raw == UpItem(2)[ds.key]
    IN  IF RatEq(ds.max_amp, Zero) THEN raw
        ELSE Normalized(raw, IF RatEq(ds.min_amp, ds.max_amp) THEN ds.min_amp
                             ELSE Between(ds.min_amp, ds.max_amp, Rands[Len(Rands)]))

IsAllZero(a) == Elems(a.data, NDim(a)) \subseteq {0}

\* C8: every access ends in exactly one of three ways.  If the noise-only test
\* fires, the mixed key is the drawn noise excerpt itself and every field of
\* label_keys is zeros of the same shape; only otherwise the mixing test is
\* made (always passed when probability == 1) and the key is the blend of
\* original and noise; if neither fires the item is the upstream's in every
\* field.  So noise_only_probability = 1 zeroes the label_keys on every
\* access, and both probabilities 0 pass every item through.
C8_ThreeOutcomes ==
    /\ (Called /\ IndexValid) => ReturnedOk
    /\ ReturnedOk =>
          /\ DOMAIN Item = DOMAIN UpItem(1)
          /\ NoiseOnlyFired =>
                /\ Len(Top.up) = 2
                /\ Item[ds.key] = DrawnNoise
                /\ \A k \in ds.label_keys :
                      /\ Item[k].shape = UpItem(1)[k].shape
                      /\ IsAllZero(Item[k])
                /\ \A k \in DOMAIN Item \ (ds.label_keys \cup {ds.key}) : Item[k] = UpItem(1)[k]
          /\ MixFired =>
                /\ Len(Top.up) = 2
                /\ Item[ds.key] = Blend(UpItem(1)[ds.key], DrawnNoise,
                                        Between(ds.min_factor, ds.max_factor, RandsAfterTests[1]))
                /\ \A k \in DOMAIN Item \ {ds.key} : Item[k] = UpItem(1)[k]
          /\ (~NoiseOnlyFired /\ ~MixFired) =>
                /\ Len(Top.up) = 1
                /\ Item = UpItem(1)
          /\ RatEq(ds.noise_only_probability, One) =>
                \A k \in ds.label_keys : IsAllZero(Item[k])
          /\ (RatEq(ds.probability, Zero) /\ RatEq(ds.noise_only_probability, Zero)) =>
                Item = UpItem(1)

\* the noise-only branch taken on a draw, over an item with a non-zero label,
\* in a dataset that would otherwise always mix
C8_Witness ==
    /\ ReturnedOk /\ ds.kind = "MixBackgroundNoise"
    /\ ds.noise_only_probability = Rat(1, 2) /\ ds.probability = One
    /\ NoiseOnlyFired
    /\ "label_fg" \in ds.label_keys
    /\ ~IsAllZero(UpItem(1)["label_fg"])
    /\ IsAllZero(Item["label_fg"])

-----------------------------------------------------------------------------
(* Properties of the datasets in general (Spec) and of Mixup (SpecMixup).    *)

\* a declared shape matches an actual one: same rank, and every axis that is
\* not None has the declared size
ShapeMatches(declared, actual) ==
    /\ Len(declared) = Len(actual)
    /\ \A ax \in DOMAIN declared : declared[ax] = None \/ declared[ax] = actual[ax]

\* C1: the item a dataset returns for a valid index has, for every field of
\* the dataset's shapes, a value of the declared dtype whose axes match the
\* declared sizes.
C1_DeclaredSchema ==
    (ReturnedOk /\ IndexValid) =>
        \A k \in DOMAIN ds.shapes :
            /\ k \in DOMAIN Item
            /\ k # "itemid" =>
                  /\ Item[k].dtype = ds.dtypes[k]
                  /\ ShapeMatches(ds.shapes[k], Item[k].shape)

\* C2: a call with an index outside 0..length-1 fails with an error; no item
\* is returned for it.
C2_OutOfRangeFails == (Called /\ ~IndexValid) => ~ReturnedOk

\* the value of field k before Mixup thresholds it: the blend of the two
\* items when k is a blended key, else the field of the base item
PreThreshold(k) ==
    LET w1   == Top.draws.w1
        w2   == RatNorm(RatSub(One, w1))
        base == IF ~RatLess(w1, w2) THEN UpItem(1) ELSE UpItem(2)
    IN  IF k \in ds.keys THEN MixupBlend(w1, UpItem(1)[k], w2, UpItem(2)[k]) ELSE base[k]

\* C9: after Mixup, every element of a field of binarize_keys is exactly 0 or
\* 1, is 1 iff the value before thresholding was strictly positive, and the
\* field has the dtype the dataset declares for it.
C9_BinarizedDeclaredDtype ==
    ReturnedOk =>
        \A k \in ds.binarize_keys :
            /\ Item[k].den = 1
            /\ Elems(Item[k].data, NDim(Item[k])) \subseteq {0, 1}
            /\ Item[k].shape = PreThreshold(k).shape
            /\ Item[k].data = MapData(LAMBDA v : IF v > 0 THEN 1 ELSE 0,
                                      PreThreshold(k).data, NDim(Item[k]))
            /\ Item[k].dtype = ds.dtypes[k]

RECURSIVE IsDeterministic(_)
\* no dataset of the chain draws a random number
IsDeterministic(d) ==
    CASE d.kind \in {"BirdcallDataset", "NoiseDataset"} -> TRUE
      [] d.kind = "FixedSizeExcerpts" -> d.deterministic /\ IsDeterministic(d.dataset)
      [] d.kind = "Floatify" -> IsDeterministic(d.dataset)
      [] d.kind = "DownmixChannels" -> d.method # "random_uniform" /\ IsDeterministic(d.dataset)
      [] OTHER -> FALSE

\* the outcomes of ds[idx] as the very first call
FirstCall(idx) == GetItem(ds, <<>>, idx, <<>>, <<>>)

\* every dict returned inside the last call is still what it was when returned
ReturnedItemsIntact == \A j \in DOMAIN trace : heap[trace[j].id] = trace[j].snap

\* every __getitem__ of the last call returned a dict of its own: not one
\* that existed before the call, not one another __getitem__ returned
ReturnedItemsNew ==
    \A j \in DOMAIN trace :
        /\ trace[j].id > ret.held
        /\ \A i \in DOMAIN trace : i # j => trace[i].id # trace[j].id

\* a chain without random draws returns what a first call returns
SameAsFirstCall ==
    (Called /\ IsDeterministic(ds)) =>
        \A o \in FirstCall(ret.idx) :
            /\ o.status = ret.status
            /\ ReturnedOk => o.heap[o.id] = Item

\* a call changes neither the dataset objects (their fields, parameters and
\* backing arrays) nor the item the consumer holds from the call before
CallLeavesRest ==
    /\ ds' = ds
    /\ (ret.status = "returned" /\ ret' # ret) => (ret'.held = 1 /\ heap'[1] = heap[ret.id])

-----------------------------------------------------------------------------
(* Properties of attribute lookup (SpecAttr).                                *)

\* the depths of the objects of the chain on which the normal lookup of the
\* name succeeds
DefinedAt(name) == {n \in 0..Depth(ds) : Defines(StageAt(ds, n), name)}

\* C11: an attribute looked up on the outermost dataset resolves to the value
\* of the outermost object of the chain that defines it, so to the leaf's
\* value when only the leaf defines it (a sampler set on the leaf), through
\* any number of wrappers; the walk ends at the leaf, with an AttributeError
\* when no object defines the name.
C11_AttributeForwarding ==
    attr.status # "none" =>
        LET D == DefinedAt(attr.name)
        IN  /\ attr.depth \in 0..Depth(ds)
            /\ IF D = {}
               THEN attr.status = "AttributeError" /\ attr.depth = Depth(ds)
               ELSE LET n == CHOOSE m \in D : \A k \in D : m <= k
                    IN  /\ attr.status = "value"
                        /\ attr.depth = n
                        /\ attr.value = OwnValue(StageAt(ds, n), attr.name, n)

\* a sampler set on the leaf only, read through MaxWraps wrappers
C11_Witness ==
    /\ attr.status = "value" /\ attr.name = "sampler"
    /\ Depth(ds) = MaxWraps
    /\ DefinedAt("sampler") = {MaxWraps}
    /\ attr.value = SamplerFor(MaxWraps)

-----------------------------------------------------------------------------
(* Properties of the mixing arithmetic (SpecNoiseMix).                       *)

\* the elements of an array in row-major order
Flat(a) ==
    CASE NDim(a) = 0 -> <<a.data>>
      [] NDim(a) = 1 -> a.data
      [] OTHER ->
            [i \in 1..(a.shape[1] * a.shape[2]) |->
                a.data[((i - 1) \div a.shape[2]) + 1][((i - 1) % a.shape[2]) + 1]]

\* the i-th element as a rational
ElemAt(a, i) == RatNorm(Rat(Flat(a)[i], a.den))

RatLeq(x, y) == ~RatLess(y, x)

\* the mixing weight of the call: min_factor + draw * (max_factor - min_factor)
MixWeight ==
    RatNorm(RatAdd(ds.min_factor,
                   RatMul(RandsAfterTests[1], RatSub(ds.max_factor, ds.min_factor))))

\* the item the noise dataset returned to get_noise
RawNoise == UpItem(2)[ds.key]

\* the amplitude the noise is scaled to: min_amp, or min_amp plus the last
\* draw of the call times the width of the range
AmpFactor ==
    IF RatEq(ds.min_amp, ds.max_amp) THEN ds.min_amp
    ELSE RatNorm(RatAdd(ds.min_amp,
                        RatMul(Rands[Len(Rands)], RatSub(ds.max_amp, ds.min_amp))))

\* the largest absolute numerator of the raw noise
RawPeak ==
    LET S == {Abs(v) : v \in Range(Flat(RawNoise))}
    IN  CHOOSE m \in S : \A v \in S : v <= m

\* the i-th element of the noise that enters the result: the raw element, or
\* with normalization the raw element times AmpFactor over the peak
NoiseElem(i) ==
    IF RatEq(ds.max_amp, Zero) THEN ElemAt(RawNoise, i)
    ELSE IF RawPeak = 0 THEN Zero
    ELSE RatNorm(Rat(Flat(RawNoise)[i] * AmpFactor.num, RawPeak * AmpFactor.den))

\* the calls on the noise dataset itself inside the last call
NoiseCalls == {j \in DOMAIN trace : trace[j].path = <<"noisedataset">>}

\* C12: when the mixing branch fires, the weight w lies in [min_factor,
\* max_factor] (and is min_factor when the two are equal), every element of
\* the mixed key is (1 - w) * original + w * noise, and the noise comes from
\* one call on the noise dataset with an index in 0..len(noisedataset)-1.
\* With max_amp # 0 the noise is first scaled to a peak of a factor in
\* [min_amp, max_amp] (min_amp when the two are equal); an all-zero excerpt
\* stays all-zero and no call on a valid index raises an error.
C12_MixingFormula ==
    /\ (Called /\ IndexValid) => ReturnedOk
    /\ (ReturnedOk /\ (MixFired \/ NoiseOnlyFired)) =>
          /\ Cardinality(NoiseCalls) = 1
          /\ \A j \in NoiseCalls :
                /\ trace[j].idx \in 0..(LenDataset(ds.noisedataset) - 1)
                /\ trace[j].id = Top.up[2]
          /\ ~RatEq(ds.max_amp, Zero) =>
                /\ RatLeq(ds.min_amp, AmpFactor) /\ RatLeq(AmpFactor, ds.max_amp)
                /\ RatEq(ds.min_amp, ds.max_amp) => AmpFactor = ds.min_amp
    /\ (ReturnedOk /\ MixFired) =>
          /\ RatLeq(ds.min_factor, MixWeight) /\ RatLeq(MixWeight, ds.max_factor)
          /\ RatEq(ds.min_factor, ds.max_factor) => MixWeight = ds.min_factor
          /\ Item[ds.key].shape = UpItem(1)[ds.key].shape
          /\ \A i \in DOMAIN Flat(Item[ds.key]) :
                RatEq(ElemAt(Item[ds.key], i),
                      RatAdd(RatMul(RatNorm(RatSub(One, MixWeight)), ElemAt(UpItem(1)[ds.key], i)),
                             RatMul(MixWeight, NoiseElem(i))))
    /\ (ReturnedOk /\ NoiseOnlyFired /\ ~RatEq(ds.max_amp, Zero)) =>
          /\ IsAllZero(RawNoise) => IsAllZero(Item[ds.key])
          /\ ~IsAllZero(RawNoise) => RatEq(MaxAbs(Item[ds.key]), AmpFactor)
          /\ \A i \in DOMAIN Flat(Item[ds.key]) : RatEq(ElemAt(Item[ds.key], i), NoiseElem(i))

\* a quarter of noise, scaled to a drawn amplitude, mixed into three quarters
\* of the original
C12_Witness ==
    /\ ReturnedOk /\ MixFired
    /\ ds.min_factor = Rat(1, 4) /\ ds.max_factor = Rat(1, 4)
    /\ ds.min_amp = Rat(1, 4) /\ ds.max_amp = One
    /\ ~IsAllZero(RawNoise)
    /\ ~IsAllZero(UpItem(1)[ds.key])
    /\ Item[ds.key] # UpItem(1)[ds.key]

\* an all-zero noise excerpt normalized and mixed in
C12_ZeroNoiseWitness ==
    /\ ReturnedOk /\ MixFired
    /\ ~RatEq(ds.max_amp, Zero)
    /\ IsAllZero(RawNoise)

-----------------------------------------------------------------------------
(* Further properties of the segment detector (SpecSeg).                     *)

\* C13: every (start, length) pair read_noise_csv returns lies inside the
\* recording: start >= 0, length >= 0 and start + length <= length of the
\* recording, whatever the table, calls beginning before sample 0 or ending
\* after the end included.
C13_SegmentsInside ==
    Returned =>
        \A k \in DOMAIN segOut.segments :
            /\ segOut.segments[k][1] >= 0
            /\ segOut.segments[k][2] >= 0
            /\ segOut.segments[k][1] + segOut.segments[k][2] <= segIn.length

-----------------------------------------------------------------------------
(* Properties of NoiseDataset (SpecNoise).                                   *)

\* the lengths of the waveform/segment pairs the dataset was built from: the
\* given segments' lengths, or each whole wave file's length when segments
\* are omitted, each with its place (wave file, position in its list)
PairLengths ==
    IF args.segments_per_wav.given
    THEN UNION {{<<w, k, args.segments_per_wav.list[w][k][2]>> :
                    k \in DOMAIN args.segments_per_wav.list[w]} :
                w \in DOMAIN args.wavs}
    ELSE {<<w, 1, LenOf(args.wavs[w])>> : w \in DOMAIN args.wavs}

\* C14: the dataset has as many items as there are waveform/segment pairs of
\* length >= min_length, and every item of a valid index has the length of
\* its segment, which is at least min_length, with segments given or omitted.
C14_MinLength ==
    ds.kind = "NoiseDataset" =>
        /\ LenDataset(ds) = Cardinality({t \in PairLengths : t[3] >= args.min_length})
        /\ (Called /\ IndexValid) =>
              /\ ReturnedOk
              /\ LenOf(Item["input"]) = ds.segments[ret.idx + 1].length
              /\ LenOf(Item["input"]) >= args.min_length

=============================================================================
